---------------------------- MODULE Spec2Model ----------------------------
(***************************************************************************)
(* A model of src/main.py: the Lexer (an ordered table of lexical rules,   *)
(* first match wins) and the recursive-descent Parser with its symbol      *)
(* table.  One run of the program is one behaviour: the source text is     *)
(* chosen in Init, Lexer.tokenize runs one loop iteration per step, then   *)
(* Parser.parse runs with an explicit call stack, one step per piece of    *)
(* code between two calls or returns.                                      *)
(*                                                                         *)
(* Characters are one-character strings, a text is a sequence of them.     *)
(* Offsets are 0-based as in Python; sequences are 1-based as in TLA+.     *)
(***************************************************************************)
EXTENDS Integers, Sequences, FiniteSets, TLC

VARIABLES
  text,       \* Lexer.text: the source text
  position,   \* Lexer.position: the cursor, a 0-based offset
  tokens,     \* Lexer.tokens: tokens produced and not yet consumed
  phase,      \* "lex", "parse", "done" (parse returned) or "error" (raised)
  stack,      \* the Python call stack below main(): one frame per call
  ret,        \* the value the last returning call returned
  variables,  \* Parser.variables: the symbol table
  heap,       \* the list objects, by identity: heap[r] is the content of r
  result,     \* the local list `result` of Parser.parse
  output,     \* the value Parser.parse returned
  error,      \* the exception raised, with the data its message shows
  declared,   \* history: the content each name was declared with
  applied     \* history: the number of operator applications so far

vars == <<text, position, tokens, phase, stack, ret, variables, heap,
          result, output, error, declared, applied>>

-----------------------------------------------------------------------------
(* Bounds of the model *)

\* the longest text assembled from Words, in words
MaxWords == 3
\* the longest program assembled from Statements, in statements
MaxStmts == 2
\* how deep a document value is unfolded when two values are compared
MaxDepth == 4

-----------------------------------------------------------------------------
(* Characters and strings *)

None == [t |-> "None", v |-> 0]

Whitespace == {" ", "\t", "\n", "\r"}
Digits == {"0", "1", "2", "3", "4", "5", "6", "7", "8", "9"}
Letters ==
  {"a", "b", "c", "d", "e", "f", "g", "h", "i", "j", "k", "l", "m",
   "n", "o", "p", "q", "r", "s", "t", "u", "v", "w", "x", "y", "z",
   "A", "B", "C", "D", "E", "F", "G", "H", "I", "J", "K", "L", "M",
   "N", "O", "P", "Q", "R", "S", "T", "U", "V", "W", "X", "Y", "Z", "_"}

IdentChars == Letters \cup Digits

\* s[n:] of Python, n a 0-based offset
Drop(s, n) == SubSeq(s, n + 1, Len(s))

\* s[:n] of Python
Take(s, n) == SubSeq(s, 1, n)

\* whether text s starts with the text p
StartsWith(s, p) == Len(s) >= Len(p) /\ Take(s, Len(p)) = p

\* the length of the longest prefix of s whose characters are all in set cls
RECURSIVE Run(_, _)
Run(s, cls) ==
  IF s # <<>> /\ Head(s) \in cls THEN 1 + Run(Tail(s), cls) ELSE 0

\* the index of the first occurrence of character c in s, 0 when there is none
RECURSIVE IndexOf(_, _)
IndexOf(s, c) ==
  IF s = <<>> THEN 0
  ELSE IF Head(s) = c THEN 1
  ELSE LET k == IndexOf(Tail(s), c) IN IF k = 0 THEN 0 ELSE k + 1

-----------------------------------------------------------------------------
(* Lexer *)

Lit(s, kind) == [re |-> "lit", arg |-> <<s>>, kind |-> kind]

\* a variant of the table, for comparison: the identifier rule is tried
\* before the keyword and boolean rules
TOKENSIdentFirst ==
  << [re |-> "space", arg |-> <<>>, kind |-> ""],
     [re |-> "ident", arg |-> <<>>, kind |-> "IDENTIFIER"],
     Lit(<<"v", "a", "r">>, "VAR"),
     Lit(<<"^">>, "EVAL"),
     Lit(<<"*">>, "MULTIPLY"),
     Lit(<<"@", "{">>, "DICT_START"),
     Lit(<<"}">>, "DICT_END"),
     Lit(<<"/">>, "DIVIDE"),
     Lit(<<"(">>, "ARRAY_START"),
     Lit(<<")">>, "ARRAY_END"),
     Lit(<<",">>, "COMMA"),
     Lit(<<"=">>, "EQUALS"),
     [re |-> "alt", arg |-> << <<"t", "r", "u", "e">>,
                               <<"f", "a", "l", "s", "e">> >>,
      kind |-> "BOOLEAN"],
     [re |-> "digits", arg |-> <<>>, kind |-> "NUMBER"],
     [re |-> "string", arg |-> <<>>, kind |-> "STRING"],
     Lit(<<";">>, "SEMICOLON"),
     Lit(<<"+">>, "PLUS"),
     Lit(<<"-">>, "MINUS") >>

\* Lexer.TOKENS: the rules in the order they are tried; kind "" is Python's
\* None (the match produces no token)
TOKENS ==
  << [re |-> "space", arg |-> <<>>, kind |-> ""],
     Lit(<<"v", "a", "r">>, "VAR"),
     Lit(<<"^">>, "EVAL"),
     Lit(<<"*">>, "MULTIPLY"),
     Lit(<<"@", "{">>, "DICT_START"),
     Lit(<<"}">>, "DICT_END"),
     Lit(<<"/">>, "DIVIDE"),
     Lit(<<"(">>, "ARRAY_START"),
     Lit(<<")">>, "ARRAY_END"),
     Lit(<<",">>, "COMMA"),
     Lit(<<"=">>, "EQUALS"),
     [re |-> "alt", arg |-> << <<"t", "r", "u", "e">>,
                               <<"f", "a", "l", "s", "e">> >>,
      kind |-> "BOOLEAN"],
     [re |-> "digits", arg |-> <<>>, kind |-> "NUMBER"],
     [re |-> "string", arg |-> <<>>, kind |-> "STRING"],
     [re |-> "ident", arg |-> <<>>, kind |-> "IDENTIFIER"],
     Lit(<<";">>, "SEMICOLON"),
     Lit(<<"+">>, "PLUS"),
     Lit(<<"-">>, "MINUS") >>

\* re.match(regex, s).group(0) as a length: how many characters of s the
\* pattern of rule matches at the start of s, 0 when re.match returns None
\* (no pattern of the table matches the empty text)
MatchLen(rule, s) ==
  CASE rule.re = "lit" ->
         IF StartsWith(s, rule.arg[1]) THEN Len(rule.arg[1]) ELSE 0
    [] rule.re = "alt" ->
         IF StartsWith(s, rule.arg[1]) THEN Len(rule.arg[1])
         ELSE IF StartsWith(s, rule.arg[2]) THEN Len(rule.arg[2])
         ELSE 0
    [] rule.re = "space" -> Run(s, Whitespace)
    [] rule.re = "digits" -> Run(s, Digits)
    [] rule.re = "string" ->
         IF s # <<>> /\ Head(s) = "\""
         THEN LET k == IndexOf(Tail(s), "\"") IN IF k = 0 THEN 0 ELSE k + 1
         ELSE 0
    [] rule.re = "ident" ->
         IF s # <<>> /\ Head(s) \in Letters
         THEN 1 + Run(Tail(s), IdentChars)
         ELSE 0

\* the for loop of tokenize from rule i on: the index of the first rule of
\* TOKENS that matches at the start of s, 0 when none does
RECURSIVE MatchFrom(_, _)
MatchFrom(i, s) ==
  IF i > Len(TOKENS) THEN 0
  ELSE IF MatchLen(TOKENS[i], s) > 0 THEN i
  ELSE MatchFrom(i + 1, s)

FirstMatch(s) == MatchFrom(1, s)

\* a variant, for comparison: the token records the cursor after the match
TokenAfter(kind, lexeme, pos) ==
  [kind |-> kind, lexeme |-> lexeme, pos |-> pos + Len(lexeme)]

\* (token_type, lexeme, position) of tokenize
Token(kind, lexeme, pos) == [kind |-> kind, lexeme |-> lexeme, pos |-> pos]

\* an exception: its class, the function that raised it, its message and
\* the data the message shows
Raise(kind, where, msg, data) ==
  [kind |-> kind, where |-> where, msg |-> msg, data |-> data]

NoError == Raise("", "", "", [none |-> 0])

\* a variant of the loop of tokenize, for comparison: a match that produces
\* no token leaves the cursor where it is
TokenizeStalls ==
  /\ phase = "lex"
  /\ position < Len(text)
  /\ \E i \in {FirstMatch(Drop(text, position))} :
     LET rest == Drop(text, position)
         n == MatchLen(TOKENS[i], rest)
     IN IF i = 0
        THEN /\ phase' = "error"
             /\ error' = Raise("SyntaxError", "tokenize",
                               "unexpected character",
                               [char |-> text[position + 1]])
             /\ UNCHANGED <<tokens, position>>
        ELSE IF TOKENS[i].kind # ""
        THEN /\ tokens' = Append(tokens,
                                 Token(TOKENS[i].kind, Take(rest, n),
                                       position))
             /\ position' = position + n
             /\ UNCHANGED <<phase, error>>
        ELSE UNCHANGED <<tokens, position, phase, error>>
  /\ UNCHANGED <<text, stack, ret, variables, heap, result, output,
                 declared, applied>>

\* one iteration of the while loop of tokenize: the first rule that matches
\* gives a token (none for whitespace) and moves the cursor past the match;
\* SyntaxError when no rule matches
Tokenize ==
  /\ phase = "lex"
  /\ position < Len(text)
  /\ \E i \in {FirstMatch(Drop(text, position))} :
     LET rest == Drop(text, position)
         n == MatchLen(TOKENS[i], rest)
     IN IF i = 0
        THEN /\ phase' = "error"
             /\ error' = Raise("SyntaxError", "tokenize",
                               "unexpected character",
                               [char |-> text[position + 1]])
             /\ UNCHANGED <<tokens, position>>
        ELSE /\ tokens' = IF TOKENS[i].kind # ""
                          THEN Append(tokens,
                                      Token(TOKENS[i].kind, Take(rest, n),
                                            position))
                          ELSE tokens
             /\ position' = position + n
             /\ UNCHANGED <<phase, error>>
  /\ UNCHANGED <<text, stack, ret, variables, heap, result, output,
                 declared, applied>>

\* Lexer.__init__ returns when the loop of tokenize ends; main then builds
\* the Parser (an empty symbol table) and calls parse (result = [])
StartParse ==
  /\ phase = "lex"
  /\ position >= Len(text)
  /\ phase' = "parse"
  /\ variables' = <<>>
  /\ result' = <<>>
  /\ stack' = <<[fn |-> "parse", pc |-> "loop", id |-> <<>>, acc |-> None,
                 op |-> "", base |-> 0, seen |-> -1]>>
  /\ UNCHANGED <<text, position, tokens, ret, heap, output, error, declared,
                 applied>>

\* Lexer.peek
Peek(toks) == IF toks # <<>> THEN Head(toks) ELSE None

\* what Lexer.next_token leaves of the tokens: pop(0), nothing to pop when
\* there is no token
Rest(toks) == IF toks # <<>> THEN Tail(toks) ELSE toks

-----------------------------------------------------------------------------
(* Document values.  Integers, booleans, texts and floats are immutable and *)
(* held by value; a dictionary is never changed once parse_dict returned    *)
(* it and is held by value too; a list is an object that += and *= change   *)
(* in place, so it is held by reference into heap.                          *)

VInt(n) == [t |-> "int", v |-> n]
VBool(b) == [t |-> "bool", v |-> b]
VStr(s) == [t |-> "str", v |-> s]
VList(r) == [t |-> "list", v |-> r]
VDict(entries) == [t |-> "dict", v |-> entries]

Abs(n) == IF n < 0 THEN -n ELSE n

RECURSIVE GCD(_, _)
GCD(a, b) == IF b = 0 THEN a ELSE GCD(b, a % b)

\* a float, held as the fraction n/d in lowest terms with d > 0 (the values
\* the bounded inputs produce are far from the range where a double rounds
\* an integer)
VFloat(n, d) ==
  LET g == GCD(Abs(n), Abs(d))
      s == IF d < 0 THEN -1 ELSE 1
  IN [t |-> "float", v |-> <<(s * n) \div g, (s * d) \div g>>]

IsNum(x) == x.t \in {"int", "bool", "float"}

\* a number as a fraction: bool is a subclass of int, True is 1, False is 0
Numer(x) ==
  CASE x.t = "int" -> x.v
    [] x.t = "bool" -> (IF x.v THEN 1 ELSE 0)
    [] x.t = "float" -> x.v[1]

Denom(x) == IF x.t = "float" THEN x.v[2] ELSE 1

\* a variant, for comparison: parse_eval without its zero check
EqZeroNever(x) == FALSE

\* right_value == 0 of parse_eval: true of 0, False and 0.0 only
EqZero(x) == IsNum(x) /\ Numer(x) = 0

\* int(lexeme) for a lexeme of digits
DigitSeq == <<"0", "1", "2", "3", "4", "5", "6", "7", "8", "9">>

RECURSIVE ParseInt(_)
ParseInt(s) ==
  IF s = <<>> THEN 0
  ELSE 10 * ParseInt(Take(s, Len(s) - 1)) + (IndexOf(DigitSeq, s[Len(s)]) - 1)

\* lexeme.strip(c): every leading and every trailing c removed
RECURSIVE Strip(_, _)
Strip(s, c) ==
  IF s # <<>> /\ Head(s) = c THEN Strip(Tail(s), c)
  ELSE IF s # <<>> /\ s[Len(s)] = c THEN Strip(Take(s, Len(s) - 1), c)
  ELSE s

\* seq * n of Python: n copies of s, none when n <= 0
RECURSIVE Repeat(_, _)
Repeat(s, n) == IF n <= 0 THEN <<>> ELSE s \o Repeat(s, n - 1)

\* dictionary[key] = value: a key already there keeps its place
DictPut(entries, key, value) ==
  IF \E i \in 1..Len(entries) : entries[i].k = key
  THEN [i \in 1..Len(entries) |->
          IF entries[i].k = key THEN [k |-> key, val |-> value]
          ELSE entries[i]]
  ELSE Append(entries, [k |-> key, val |-> value])

\* what list.extend iterates over: the items of a list, the characters of a
\* text, the keys of a dictionary
Items(x, h) ==
  CASE x.t = "list" -> h[x.v]
    [] x.t = "str" -> [i \in 1..Len(x.v) |-> VStr(<<x.v[i]>>)]
    [] x.t = "dict" -> [i \in 1..Len(x.v) |-> VStr(x.v[i].k)]

\* the arithmetic of two numbers; + - * of ints and bools give an int, any
\* float operand and every / give a float
Arith(op, a, b) ==
  LET n1 == Numer(a)  d1 == Denom(a)
      n2 == Numer(b)  d2 == Denom(b)
      fl == a.t = "float" \/ b.t = "float"
  IN CASE op = "PLUS" ->
            IF fl THEN VFloat(n1 * d2 + n2 * d1, d1 * d2) ELSE VInt(n1 + n2)
       [] op = "MINUS" ->
            IF fl THEN VFloat(n1 * d2 - n2 * d1, d1 * d2) ELSE VInt(n1 - n2)
       [] op = "MULTIPLY" ->
            IF fl THEN VFloat(n1 * n2, d1 * d2) ELSE VInt(n1 * n2)
       [] op = "DIVIDE" -> VFloat(n1 * d2, d1 * n2)

Done(val, h) == [val |-> val, heap |-> h, err |-> "", msg |-> ""]

\* an exception of Python's own, raised by the operator
HostError(kind, msg) ==
  [val |-> None, heap |-> <<>>, err |-> kind, msg |-> msg]

\* value <op>= right_value of parse_eval, with the heap h of list objects:
\* the new value and the new heap, or the exception Python raises
Apply(op, value, right, h) ==
  LET intlike(x) == x.t \in {"int", "bool"}
  IN CASE IsNum(value) /\ IsNum(right) ->
            IF op = "DIVIDE" /\ Numer(right) = 0
            THEN HostError("ZeroDivisionError", "division by zero")
            ELSE Done(Arith(op, value, right), h)
       [] op = "PLUS" /\ value.t = "str" /\ right.t = "str" ->
            Done(VStr(value.v \o right.v), h)
       [] op = "PLUS" /\ value.t = "list"
                      /\ right.t \in {"list", "str", "dict"} ->
            \* list.__iadd__: the list object itself is extended
            Done(value, [h EXCEPT ![value.v] = @ \o Items(right, h)])
       [] op = "MULTIPLY" /\ value.t = "str" /\ intlike(right) ->
            Done(VStr(Repeat(value.v, Numer(right))), h)
       [] op = "MULTIPLY" /\ intlike(value) /\ right.t = "str" ->
            Done(VStr(Repeat(right.v, Numer(value))), h)
       [] op = "MULTIPLY" /\ value.t = "list" /\ intlike(right) ->
            \* list.__imul__: the list object itself is repeated
            Done(value, [h EXCEPT ![value.v] = Repeat(@, Numer(right))])
       [] op = "MULTIPLY" /\ intlike(value) /\ right.t = "list" ->
            \* int * list: a new list object
            Done(VList(Len(h) + 1),
                 Append(h, Repeat(h[right.v], Numer(value))))
       [] OTHER -> HostError("TypeError", "unsupported operand type(s)")

\* the content of a value, lists unfolded through the heap, to depth d
RECURSIVE View(_, _, _)
View(x, h, d) ==
  IF d = 0 THEN [t |-> "cut", v |-> 0]
  ELSE CASE x.t = "list" ->
              [t |-> "list",
               v |-> [i \in 1..Len(h[x.v]) |-> View(h[x.v][i], h, d - 1)]]
         [] x.t = "dict" ->
              [t |-> "dict",
               v |-> [i \in 1..Len(x.v) |->
                        [k |-> x.v[i].k, val |-> View(x.v[i].val, h, d - 1)]]]
         [] OTHER -> x

-----------------------------------------------------------------------------
(* Parser.  A frame is one call: fn the function, pc where it stands, id    *)
(* the lexeme of its local identifier or key, acc its local value, array or *)
(* dictionary, op its local operator.  History fields: base is the number   *)
(* of operator applications made before the call began, seen the number of  *)
(* tokens left when the call last entered the body of its loop (-1: not     *)
(* yet).  statement and parse_value return what the function they dispatch  *)
(* to returns, so that function takes over their frame.                     *)

Frame(fn) ==
  [fn |-> fn, pc |-> "start", id |-> <<>>, acc |-> None, op |-> "",
   base |-> applied, seen |-> -1]

Top == stack[Len(stack)]

Running(fn, pc) ==
  /\ phase = "parse"
  /\ stack # <<>>
  /\ Top.fn = fn
  /\ Top.pc = pc

\* the stack once the running call has returned
Popped == SubSeq(stack, 1, Len(stack) - 1)

\* the stack once the running call, now frame f, has called function fn
Called(f, fn) == Append([stack EXCEPT ![Len(stack)] = f], Frame(fn))

\* the stack with the running call now frame f
Moved(f) == [stack EXCEPT ![Len(stack)] = f]

\* the step goes on: the tokens left, the stack and the value returned
Goes(toks, stk, r) ==
  /\ tokens' = toks
  /\ stack' = stk
  /\ ret' = r
  /\ UNCHANGED <<phase, error>>

\* the step raises: no except clause below main() catches, the run is over;
\* the stack stays as the raise found it
Fails(toks, e) ==
  /\ tokens' = toks
  /\ phase' = "error"
  /\ error' = e
  /\ UNCHANGED <<stack, ret>>

\* the same, the running call having come to frame f before the raise
FailsIn(toks, f, e) ==
  /\ tokens' = toks
  /\ phase' = "error"
  /\ error' = e
  /\ stack' = Moved(f)
  /\ UNCHANGED ret

\* token[0] with token None
NoneSubscript(where) ==
  Raise("TypeError", where, "'NoneType' object is not subscriptable",
        [none |-> 0])

\* Parser.expect on tokens toks: the error it raises, NoError when the next
\* token is of kind token_type
Expect(toks, token_type, where) ==
  LET token == Peek(toks)
  IN IF token = None \/ token.kind # token_type
     THEN Raise("SyntaxError", where, "expected token, but got",
                [expected |-> token_type, token |-> token])
     ELSE NoError

Operators == {"PLUS", "MINUS", "MULTIPLY", "DIVIDE"}

\* parse: the loop condition holds, statement is called
ParseStatement ==
  /\ Running("parse", "loop")
  /\ Peek(tokens) # None
  /\ Goes(tokens,
          Called([Top EXCEPT !.pc = "append", !.seen = Len(tokens)],
                 "statement"),
          ret)
  /\ UNCHANGED <<text, position, variables, heap, result, output, declared,
                 applied>>

\* parse: result.append(the statement's value)
ParseAppend ==
  /\ Running("parse", "append")
  /\ result' = Append(result, ret)
  /\ Goes(tokens, Moved([Top EXCEPT !.pc = "loop"]), ret)
  /\ UNCHANGED <<text, position, variables, heap, output, declared, applied>>

\* the list `result` of parse as the value parse returns
ResultList(r) == [t |-> "results", v |-> r]

\* parse: the loop condition fails,
\* return result if len(result) > 1 else result[0]
ParseReturn ==
  /\ Running("parse", "loop")
  /\ Peek(tokens) = None
  /\ IF Len(result) > 1
     THEN /\ output' = ResultList(result)
          /\ phase' = "done"
          /\ stack' = Popped
          /\ UNCHANGED error
     ELSE IF Len(result) = 1
     THEN /\ output' = result[1]
          /\ phase' = "done"
          /\ stack' = Popped
          /\ UNCHANGED error
     ELSE /\ phase' = "error"
          /\ error' = Raise("IndexError", "parse",
                            "list index out of range", [none |-> 0])
          /\ UNCHANGED <<output, stack>>
  /\ UNCHANGED <<text, position, tokens, ret, variables, heap, result,
                 declared, applied>>

\* statement: the dispatch on the kind of the next token
Statement ==
  /\ Running("statement", "start")
  /\ LET token == Peek(tokens)
         go(fn) == Goes(tokens, Moved(Frame(fn)), ret)
     IN CASE token.kind = "VAR" -> go("parse_var")
          [] token.kind = "DICT_START" -> go("parse_dict")
          [] token.kind = "ARRAY_START" -> go("parse_array")
          [] OTHER ->
               Fails(tokens, Raise("SyntaxError", "statement",
                                   "unexpected token", [token |-> token]))
  /\ UNCHANGED <<text, position, variables, heap, result, output, declared,
                 applied>>

\* parse_var up to its call of parse_value
ParseVar ==
  /\ Running("parse_var", "start")
  /\ LET toks1 == Rest(tokens)
         identifier == Peek(toks1)
         toks2 == Rest(toks1)
         e == Expect(toks2, "EQUALS", "expect")
     IN IF identifier = None
        THEN Fails(toks2, NoneSubscript("parse_var"))
        ELSE IF identifier.kind # "IDENTIFIER"
        THEN Fails(toks2, Raise("SyntaxError", "parse_var",
                                "expected identifier after 'var'",
                                [none |-> 0]))
        ELSE IF e # NoError
        THEN Fails(Rest(toks2), e)
        ELSE Goes(Rest(toks2),
                  Called([Top EXCEPT !.pc = "assign",
                                     !.id = identifier.lexeme],
                         "parse_value"),
                  ret)
  /\ UNCHANGED <<text, position, variables, heap, result, output, declared,
                 applied>>

\* d[key] = value on a mapping d held as a function
Put(d, key, value) ==
  [n \in DOMAIN d \cup {key} |-> IF n = key THEN value ELSE d[n]]

\* parse_var from the return of parse_value:
\* self.variables[identifier[1]] = value; return {identifier[1]: value}
ParseVarAssign ==
  /\ Running("parse_var", "assign")
  /\ variables' = Put(variables, Top.id, ret)
  /\ declared' = Put(declared, Top.id, View(ret, heap, MaxDepth))
  /\ Goes(tokens, Popped, VDict(<<[k |-> Top.id, val |-> ret]>>))
  /\ UNCHANGED <<text, position, heap, result, output, applied>>

\* parse_value: a literal is returned, an array, a dictionary or an
\* evaluation expression is left to its function
ParseValue ==
  /\ Running("parse_value", "start")
  /\ LET token == Peek(tokens)
         go(fn) == Goes(tokens, Moved(Frame(fn)), ret)
         back(val) == Goes(Rest(tokens), Popped, val)
     IN IF token = None
        THEN Fails(tokens, NoneSubscript("parse_value"))
        ELSE CASE token.kind = "NUMBER" -> back(VInt(ParseInt(token.lexeme)))
               [] token.kind = "STRING" ->
                    back(VStr(Strip(token.lexeme, "\"")))
               [] token.kind = "BOOLEAN" ->
                    back(VBool(token.lexeme = <<"t", "r", "u", "e">>))
               [] token.kind = "ARRAY_START" -> go("parse_array")
               [] token.kind = "DICT_START" -> go("parse_dict")
               [] token.kind = "EVAL" -> go("parse_eval")
               [] OTHER ->
                    Fails(tokens, Raise("SyntaxError", "parse_value",
                                        "unexpected value",
                                        [token |-> token]))
  /\ UNCHANGED <<text, position, variables, heap, result, output, declared,
                 applied>>

\* parse_array: self.lexer.next_token(); array = []
ParseArray ==
  /\ Running("parse_array", "start")
  /\ heap' = Append(heap, <<>>)
  /\ Goes(Rest(tokens),
          Moved([Top EXCEPT !.pc = "loop", !.acc = VList(Len(heap) + 1)]),
          ret)
  /\ UNCHANGED <<text, position, variables, result, output, declared,
                 applied>>

\* parse_array: the loop condition; parse_value is called when it holds,
\* else expect(ARRAY_END) and the array is returned
ParseArrayLoop ==
  /\ Running("parse_array", "loop")
  /\ LET token == Peek(tokens)
         e == Expect(tokens, "ARRAY_END", "expect")
     IN IF token # None /\ token.kind # "ARRAY_END"
        THEN Goes(tokens,
                  Called([Top EXCEPT !.pc = "append", !.seen = Len(tokens)],
                         "parse_value"),
                  ret)
        ELSE IF e # NoError
        THEN Fails(Rest(tokens), e)
        ELSE Goes(Rest(tokens), Popped, Top.acc)
  /\ UNCHANGED <<text, position, variables, heap, result, output, declared,
                 applied>>

\* parse_array from the return of parse_value: array.append(value), then
\* a comma is consumed
ParseArrayAppend ==
  /\ Running("parse_array", "append")
  /\ heap' = [heap EXCEPT ![Top.acc.v] = Append(@, ret)]
  /\ LET token == Peek(tokens)
     IN IF token = None
        THEN Fails(tokens, NoneSubscript("parse_array"))
        ELSE Goes(IF token.kind = "COMMA" THEN Rest(tokens) ELSE tokens,
                  Moved([Top EXCEPT !.pc = "loop"]), ret)
  /\ UNCHANGED <<text, position, variables, result, output, declared,
                 applied>>

\* parse_dict: self.lexer.next_token(); dictionary = {}
ParseDict ==
  /\ Running("parse_dict", "start")
  /\ Goes(Rest(tokens),
          Moved([Top EXCEPT !.pc = "loop", !.acc = VDict(<<>>)]), ret)
  /\ UNCHANGED <<text, position, variables, heap, result, output, declared,
                 applied>>

\* parse_dict: the loop condition; when it holds the key and = are read
\* and parse_value is called, else expect(DICT_END) and the dictionary is
\* returned
ParseDictLoop ==
  /\ Running("parse_dict", "loop")
  /\ LET token == Peek(tokens)
         toks1 == Rest(tokens)
         e1 == Expect(toks1, "EQUALS", "expect")
         e2 == Expect(tokens, "DICT_END", "expect")
     IN IF token # None /\ token.kind # "DICT_END"
        THEN IF token.kind # "IDENTIFIER"
             THEN Fails(toks1, Raise("SyntaxError", "parse_dict",
                                     "expected identifier as key",
                                     [none |-> 0]))
             ELSE IF e1 # NoError
             THEN Fails(Rest(toks1), e1)
             ELSE Goes(Rest(toks1),
                       Called([Top EXCEPT !.pc = "store",
                                          !.id = token.lexeme,
                                          !.seen = Len(tokens)],
                              "parse_value"),
                       ret)
        ELSE IF e2 # NoError
        THEN Fails(Rest(tokens), e2)
        ELSE Goes(Rest(tokens), Popped, Top.acc)
  /\ UNCHANGED <<text, position, variables, heap, result, output, declared,
                 applied>>

\* parse_dict from the return of parse_value: dictionary[key[1]] = value,
\* then a semicolon is consumed
ParseDictStore ==
  /\ Running("parse_dict", "store")
  /\ LET token == Peek(tokens)
         f == [Top EXCEPT !.pc = "loop",
                          !.acc = VDict(DictPut(Top.acc.v, Top.id, ret))]
     IN IF token = None
        THEN FailsIn(tokens, f, NoneSubscript("parse_dict"))
        ELSE Goes(IF token.kind = "SEMICOLON" THEN Rest(tokens) ELSE tokens,
                  Moved(f), ret)
  /\ UNCHANGED <<text, position, variables, heap, result, output, declared,
                 applied>>

\* parse_eval up to its call of parse_value for the right-hand operand, or
\* to its return when no operator follows the identifier
ParseEval ==
  /\ Running("parse_eval", "start")
  /\ LET toks1 == Rest(tokens)
         identifier == Peek(toks1)
         toks2 == Rest(toks1)
         token == Peek(toks2)
     IN IF identifier = None
        THEN Fails(toks2, NoneSubscript("parse_eval"))
        ELSE IF identifier.kind # "IDENTIFIER"
        THEN Fails(toks2, Raise("SyntaxError", "parse_eval",
                                "expected identifier after '^'",
                                [none |-> 0]))
        ELSE IF identifier.lexeme \notin DOMAIN variables
        THEN Fails(toks2, Raise("ValueError", "parse_eval",
                                "undefined variable",
                                [name |-> identifier.lexeme]))
        ELSE IF token # None /\ token.kind \in Operators
        THEN Goes(Rest(toks2),
                  Called([Top EXCEPT !.pc = "apply",
                                     !.id = identifier.lexeme,
                                     !.acc = variables[identifier.lexeme],
                                     !.op = token.kind],
                         "parse_value"),
                  ret)
        ELSE Goes(toks2, Popped, variables[identifier.lexeme])
  /\ UNCHANGED <<text, position, variables, heap, result, output, declared,
                 applied>>

\* a variant of parse_eval, for comparison: a loop over the operators that
\* follow, the value so far the left-hand operand of the next one
ParseEvalApplyLoop ==
  /\ Running("parse_eval", "apply")
  /\ LET a == Apply(Top.op, Top.acc, ret, heap)
         token == Peek(tokens)
     IN IF Top.op = "DIVIDE" /\ EqZero(ret)
        THEN /\ Fails(tokens, Raise("ZeroDivisionError", "parse_eval",
                                    "Error: division by zero",
                                    [none |-> 0]))
             /\ UNCHANGED <<heap, applied>>
        ELSE IF a.err # ""
        THEN /\ Fails(tokens, Raise(a.err, "parse_eval", a.msg,
                                    [none |-> 0]))
             /\ UNCHANGED <<heap, applied>>
        ELSE IF token # None /\ token.kind \in Operators
        THEN /\ Goes(Rest(tokens),
                     Called([Top EXCEPT !.acc = a.val, !.op = token.kind],
                            "parse_value"),
                     ret)
             /\ heap' = a.heap
             /\ applied' = applied + 1
        ELSE /\ Goes(tokens, Popped, a.val)
             /\ heap' = a.heap
             /\ applied' = applied + 1
  /\ UNCHANGED <<text, position, variables, result, output, declared>>

\* parse_eval from the return of parse_value: the operator is applied to
\* value and right_value and the value is returned
ParseEvalApply ==
  /\ Running("parse_eval", "apply")
  /\ LET a == Apply(Top.op, Top.acc, ret, heap)
     IN IF Top.op = "DIVIDE" /\ EqZero(ret)
        THEN /\ Fails(tokens, Raise("ZeroDivisionError", "parse_eval",
                                    "Error: division by zero",
                                    [none |-> 0]))
             /\ UNCHANGED <<heap, applied>>
        ELSE IF a.err # ""
        THEN /\ Fails(tokens, Raise(a.err, "parse_eval", a.msg,
                                    [none |-> 0]))
             /\ UNCHANGED <<heap, applied>>
        ELSE /\ Goes(tokens, Popped, a.val)
             /\ heap' = a.heap
             /\ applied' = applied + 1
  /\ UNCHANGED <<text, position, variables, result, output, declared>>

-----------------------------------------------------------------------------
(* The source texts of the model: short texts of every word of Words, for   *)
(* the lexer; programs of whole statements, the last one possibly broken    *)
(* or in error; and the divisions of every pair of small integers.          *)

\* the largest integer, in absolute value, the divisions are drawn from
MaxInt == 3

Words ==
  { <<"v", "a", "r">>, <<"t", "r", "u", "e">>, <<"f", "a", "l", "s", "e">>,
    <<"x">>, <<"1">>, <<" ">>, <<"$">>, <<"\"">>, <<"@">>, <<"{">> }

Statements ==
  { <<"v", "a", "r", " ", "x", "=", "3", " ">>,
    <<"v", "a", "r", " ", "x", "=", "(", "1", ")", " ">>,
    <<"v", "a", "r", " ", "x", "=", "\"", "s", "\"", " ">>,
    <<"v", "a", "r", " ", "x", "=", "t", "r", "u", "e", " ">>,
    <<"v", "a", "r", " ", "x", "=", "@", "{", "a", "=", "1", "}", " ">>,
    <<"v", "a", "r", " ", "y", "=", "^", "x", " ">>,
    <<"(", "^", "x", "+", "^", "x", ",", "^", "x", ")", " ">>,
    <<"(", "^", "x", "*", "2", ",", "^", "x", "/", "2", ")", " ">>,
    <<"@", "{", "a", "=", "^", "x", "-", "^", "x", "-", "1", ";",
      "b", "=", "2", "}", " ">> }

\* statements that end the run: cut short, ill-formed or in error
LastStatements ==
  { <<"@", "{", "a", "=", "1">>,
    <<"(", "1">>,
    <<"v", "a", "r">>,
    <<"v", "a", "r", " ", "x", "=">>,
    <<"(", "^">>,
    <<"(", "^", "x", "+">>,
    <<"v", "a", "r", " ", "x">>,
    <<"@", "{">>,
    <<"(">>,
    <<"@", "{", "a">>,
    <<"(", "^", "x", "/", "0", ")">>,
    <<"(", "^", "z", ")">>,
    <<"v", "a", "r", " ", "z", "=", "^", "z">>,
    <<";">>,
    <<"v", "a", "r", " ", "1">>,
    <<"@", "{", "1">>,
    <<"(", "^", "1">>,
    <<"(", ",">>,
    <<"v", "a", "r", " ", "x", " ", "1">>,
    <<"(", "1", "}">>,
    <<"(", "^", "x", "-", "1", "-", "1", ")">>,
    <<"@", "{", "a", "=", "1", ")">> }

\* the sequences of at most n elements of set S
SeqsUpTo(S, n) == UNION {[1..k -> S] : k \in 0..n}

\* the texts of a sequence of texts, one after the other
RECURSIVE Concat(_)
Concat(ss) == IF ss = <<>> THEN <<>> ELSE Head(ss) \o Concat(Tail(ss))

\* the digits of a natural number
RECURSIVE NumText(_)
NumText(n) ==
  IF n < 10 THEN <<DigitSeq[n + 1]>>
  ELSE NumText(n \div 10) \o <<DigitSeq[(n % 10) + 1]>>

\* statements that leave name declared as the integer a; the language has
\* no negative literal, a negative a is 0 - |a|
DeclInt(name, a) ==
  IF a >= 0
  THEN <<"v", "a", "r", " ">> \o name \o <<"=">> \o NumText(a) \o <<" ">>
  ELSE <<"v", "a", "r", " ">> \o name \o <<"=", "0", " ">>
       \o <<"v", "a", "r", " ">> \o name \o <<"=", "^">> \o name
       \o <<"-">> \o NumText(-a) \o <<" ">>

WordInputs == {Concat(ws) : ws \in SeqsUpTo(Words, MaxWords)}

ProgramInputs ==
  {Concat(ss) \o last : ss \in SeqsUpTo(Statements, MaxStmts - 1),
                        last \in Statements \cup LastStatements}

DivisionInputs ==
  {DeclInt(<<"x">>, a) \o DeclInt(<<"y">>, b)
     \o <<"(", "^", "x", "/", "^", "y", ")">> :
     a \in -MaxInt..MaxInt, b \in -MaxInt..MaxInt}
  \cup
  {DeclInt(<<"x">>, a) \o <<"(", "^", "x", "/">> \o NumText(b) \o <<")">> :
     a \in -MaxInt..MaxInt, b \in 0..MaxInt}

Inputs == WordInputs \cup ProgramInputs \cup DivisionInputs

-----------------------------------------------------------------------------
(* The program *)

Init ==
  /\ text \in Inputs
  /\ position = 0
  /\ tokens = <<>>
  /\ phase = "lex"
  /\ stack = <<>>
  /\ ret = None
  /\ variables = <<>>
  /\ heap = <<>>
  /\ result = <<>>
  /\ output = None
  /\ error = NoError
  /\ declared = <<>>
  /\ applied = 0

Next ==
  \/ Tokenize
  \/ StartParse
  \/ ParseStatement
  \/ ParseAppend
  \/ ParseReturn
  \/ Statement
  \/ ParseVar
  \/ ParseVarAssign
  \/ ParseValue
  \/ ParseArray
  \/ ParseArrayLoop
  \/ ParseArrayAppend
  \/ ParseDict
  \/ ParseDictLoop
  \/ ParseDictStore
  \/ ParseEval
  \/ ParseEvalApply

Spec == Init /\ [][Next]_vars

\* main() runs the lexer and the parser to the end without suspension: a
\* step that can be taken is taken
LiveSpec == Spec /\ WF_vars(Next)

Halted == phase \in {"done", "error"}

-----------------------------------------------------------------------------
(* Properties *)

\* the exception is the one a read past the last token ends in: token[0]
\* with token None, or expect with no token left
ReadPastEnd ==
  /\ phase = "error"
  /\ \/ error.msg = "'NoneType' object is not subscriptable"
     \/ "token" \in DOMAIN error.data /\ error.data.token = None

\* C1: whenever the tokens are exhausted where the grammar still requires
\* one, the parse fails with a syntax error that reports the expected kind
\* and end of input, and with no other kind of failure
C1_EndOfInputIsSyntaxError ==
  ReadPastEnd =>
    /\ error.kind = "SyntaxError"
    /\ "expected" \in DOMAIN error.data
    /\ error.data.token = None

\* the value parse is to return for the statement results r
Returned(r) == IF Len(r) = 1 THEN r[1] ELSE ResultList(r)

\* the loop of parse has ended: parse returned, or raised in its own code
ParseLoopEnded ==
  phase = "done" \/ (phase = "error" /\ error.where = "parse")

\* C2: once every statement is parsed, parse returns the sole statement
\* result when there is exactly one, and in every other case, none
\* included, the sequence of the statement results
C2_ResultOfParse ==
  ParseLoopEnded => (phase = "done" /\ output = Returned(result))

\* the identifier an evaluation expression about to be parsed names
EvalName == Peek(Rest(tokens)).lexeme

\* parse_eval is about to run on ^ followed by an identifier
EvalBegins ==
  /\ Running("parse_eval", "start")
  /\ Peek(Rest(tokens)) # None
  /\ Peek(Rest(tokens)).kind = "IDENTIFIER"

\* the running call returns in this step
Returns == phase' = "parse" /\ Len(stack') < Len(stack)

\* C3: ^x with no operator resolves to the value V of the most recent
\* completed declaration var x = V, and raises an undefined-variable error
\* when no declaration of x has completed
C3_EvalResolvesDeclared ==
  [][EvalBegins =>
       IF EvalName \in DOMAIN declared
       THEN Returns => View(ret', heap', MaxDepth) = declared[EvalName]
       ELSE phase' = "error" /\ error'.kind = "ValueError"]_vars

\* the content of the symbol table
TableView ==
  [n \in DOMAIN variables |-> View(variables[n], heap, MaxDepth)]

\* the content of the statement results returned so far
ResultView == [i \in 1..Len(result) |-> View(result[i], heap, MaxDepth)]

InEval == phase = "parse" /\ stack # <<>> /\ Top.fn = "parse_eval"

\* C4: parsing an evaluation expression leaves the symbol table with the
\* same name-to-value entries, and every statement result returned earlier
\* unchanged
C4_EvalIsReadOnly ==
  [][InEval => (TableView' = TableView /\ ResultView' = ResultView)]_vars

\* parse_eval is about to divide an integer by an integer
DividesIntegers ==
  /\ Running("parse_eval", "apply")
  /\ Top.op = "DIVIDE"
  /\ Top.acc.t = "int"
  /\ ret.t = "int"

\* C5: ^x / b with x declared as the integer a yields the quotient of a and
\* b when b is not 0; when b is 0 it fails with the division-by-zero error
\* of the check, no operator having been applied
C5_Division ==
  [][DividesIntegers =>
       LET a == Top.acc.v
           b == ret.v
       IN IF b = 0
          THEN /\ phase' = "error"
               /\ error'.kind = "ZeroDivisionError"
               /\ error'.msg = "Error: division by zero"
               /\ applied' = applied
          ELSE /\ Returns
               /\ ret'.t = "float"
               /\ ret'.v[2] > 0
               /\ ret'.v[1] * b = a * ret'.v[2]
               /\ applied' = applied + 1]_vars

\* an integer was divided by an integer: 3 / 2 gave 1.5
C5_Witness == phase = "parse" /\ ret = [t |-> "float", v |-> <<3, 2>>]

\* C6: a lexical error reports the offending character and the offset of
\* that character, the position where no rule matches
C6_LexicalErrorPayload ==
  (phase = "error" /\ error.where = "tokenize") =>
    /\ "char" \in DOMAIN error.data
    /\ error.data.char = text[position + 1]
    /\ "offset" \in DOMAIN error.data
    /\ error.data.offset = position

\* offset p of the text lies inside token tok
Covers(tok, p) == tok.pos <= p /\ p < tok.pos + Len(tok.lexeme)

\* the text rebuilt up to offset n: the lexemes of toks at their offsets,
\* the whitespace of the source where no token lies
Rebuilt(toks, n) ==
  [p \in 1..n |->
     IF \E i \in 1..Len(toks) : Covers(toks[i], p - 1)
     THEN LET i == CHOOSE i \in 1..Len(toks) : Covers(toks[i], p - 1)
          IN toks[i].lexeme[p - toks[i].pos]
     ELSE IF text[p] \in Whitespace THEN text[p] ELSE "?"]

\* C7: the tokens lexed are in strictly increasing offset order, each
\* lexeme is the source text at its offset, tokens do not overlap, what no
\* token covers is whitespace, and lexemes and whitespace at their offsets
\* give back the source text
C7_TokensTileTheText ==
  phase = "lex" =>
    /\ \A i \in 1..Len(tokens) :
         /\ tokens[i].lexeme # <<>>
         /\ tokens[i].pos + Len(tokens[i].lexeme) <= position
         /\ tokens[i].lexeme =
              SubSeq(text, tokens[i].pos + 1,
                     tokens[i].pos + Len(tokens[i].lexeme))
    /\ \A i \in 1..(Len(tokens) - 1) :
         tokens[i].pos + Len(tokens[i].lexeme) <= tokens[i + 1].pos
    /\ \A p \in 0..(position - 1) :
         (\E i \in 1..Len(tokens) : Covers(tokens[i], p))
           \/ text[p + 1] \in Whitespace
    /\ Rebuilt(tokens, position) = Take(text, position)

\* a whole text is lexed into two tokens or more with whitespace about
C7_Witness ==
  /\ phase = "lex"
  /\ position = Len(text)
  /\ Len(tokens) >= 2
  /\ \E p \in 1..Len(text) : text[p] \in Whitespace

Keywords ==
  << [word |-> <<"v", "a", "r">>, kind |-> "VAR"],
     [word |-> <<"t", "r", "u", "e">>, kind |-> "BOOLEAN"],
     [word |-> <<"f", "a", "l", "s", "e">>, kind |-> "BOOLEAN"] >>

\* the index in TOKENS of the rule of kind k
RuleOf(k) == CHOOSE i \in 1..Len(TOKENS) : TOKENS[i].kind = k

\* C8: each token is that of the first rule, in list order, that matches at
\* its offset, even where a later rule matches a longer text; so text that
\* begins with var, true or false at the cursor gives a VAR or BOOLEAN
\* token for that word, and no IDENTIFIER lexeme begins with one of them
C8_FirstRuleWins ==
  phase = "lex" =>
    \A i \in 1..Len(tokens) :
      LET tok == tokens[i]
          rest == Drop(text, tok.pos)
      IN /\ MatchLen(TOKENS[RuleOf(tok.kind)], rest) = Len(tok.lexeme)
         /\ \A j \in 1..(RuleOf(tok.kind) - 1) : MatchLen(TOKENS[j], rest) = 0
         /\ \A w \in 1..Len(Keywords) :
              /\ StartsWith(rest, Keywords[w].word) =>
                   (tok.kind = Keywords[w].kind
                      /\ tok.lexeme = Keywords[w].word)
              /\ tok.kind = "IDENTIFIER" =>
                   ~StartsWith(tok.lexeme, Keywords[w].word)

\* var was lexed as VAR where the identifier rule matches a longer text
C8_Witness ==
  /\ phase = "lex"
  /\ \E i \in 1..Len(tokens) :
       /\ tokens[i].kind = "VAR"
       /\ MatchLen(TOKENS[RuleOf("IDENTIFIER")], Drop(text, tokens[i].pos)) > 3

\* C9 as stated: the value of one expression beginning with ^ is computed
\* by at most one operator application
C9_NeverChained ==
  [][(InEval /\ Returns) => applied' - Top.base <= 1]_vars

\* C9 as amended: one call of parse_eval applies at most one operator of
\* its own: none before its right-hand operand is parsed, and once it has
\* applied one it returns; operators are applied nowhere else
C9_OneOperatorPerCall ==
  [][/\ Running("parse_eval", "start") => applied' = applied
     /\ Running("parse_eval", "apply") =>
          (phase' = "error" \/ (Returns /\ applied' = applied + 1))
     /\ applied' # applied => Running("parse_eval", "apply")]_vars

\* the right-hand operand of an evaluation expression was itself computed
\* by an operator, and the expression is about to apply its own
C9_Witness == Running("parse_eval", "apply") /\ applied - Top.base >= 1

\* a loop of the parser is back at its condition after an iteration with
\* fewer tokens left than when the iteration began
LoopsConsume ==
  (phase = "parse" /\ stack # <<>> /\ Top.pc = "loop" /\ Top.seen >= 0) =>
     Len(tokens) < Top.seen

\* C10: lexing then parsing ends, with a result or an error; every
\* iteration of the lexer loop advances the cursor, every iteration of the
\* statement, array element and dictionary entry loops consumes a token
C10_Terminates ==
  /\ <>Halted
  /\ [][(phase = "lex" /\ phase' = "lex") => position' > position]_vars
  /\ []LoopsConsume

\* a run has ended after the statement loop ran twice and an array or
\* dictionary loop ran
C10_Witness == phase = "done" /\ Len(result) = 2 /\ heap # <<>>

=============================================================================
